---- MODULE Spec2Model ----
(***************************************************************************)
(* Gemini Lens: the session state held by the App component (App.tsx), the *)
(* image encoder fileToPart and the generation client editImageWithGemini  *)
(* (services/geminiService), as a state machine.                           *)
(*                                                                         *)
(* Strings are sequences of pieces.  Text supplied by the user, by a file  *)
(* or by the remote service has one UTF-16 code unit per piece, so that    *)
(* trim(), slice() and split() act on it as they do in JavaScript; a       *)
(* literal of the program is one piece, except that a comma is always a    *)
(* piece of its own.  null / undefined is None, a present value v is       *)
(* Some(v).                                                                *)
(***************************************************************************)
EXTENDS Integers, Sequences, FiniteSets, TLC

\* ------------------------------------------------------------- bounds
\* Accepted submits (generation attempts) in one behaviour.
MaxAttempts == 2
\* Image selections (object URLs created) in one behaviour.
MaxSelects == 2
\* Longest parts list of a response candidate.
MaxParts == 2
\* How far the longest model text exceeds the 100 characters kept.
MaxOverrun == 1
\* Longest file, in bytes, whose encoding is inspected.
MaxBytes == 4

\* ------------------------------------------------------- JS values
None == <<>>
Some(v) == <<v>>
IsSome(o) == Len(o) > 0
Get(o) == o[1]

\* JavaScript truthiness of a string: non-empty.
Truthy(s) == Len(s) > 0
\* JavaScript truthiness of string | null | undefined.
TruthyOpt(o) == IsSome(o) /\ Truthy(Get(o))

\* ECMAScript WhiteSpace / LineTerminator code units that occur in the model.
WhiteSpace == {" ", "\n", "\t"}

\* String.prototype.trim: drop leading and trailing white space.
RECURSIVE TrimStart(_)
TrimStart(s) ==
  IF s = <<>> THEN <<>>
  ELSE IF Head(s) \in WhiteSpace THEN TrimStart(Tail(s)) ELSE s

RECURSIVE TrimEnd(_)
TrimEnd(s) ==
  IF s = <<>> THEN <<>>
  ELSE IF s[Len(s)] \in WhiteSpace THEN TrimEnd(SubSeq(s, 1, Len(s) - 1)) ELSE s

\* Faulty variant: a guard that forgets to trim.
TrimNone(s) == s
Trim(s) == TrimEnd(TrimStart(s))

Min(a, b) == IF a < b THEN a ELSE b

\* String.prototype.slice(from, to) for 0 <= from <= to (0-based, to exclusive).
Slice(s, from, to) == SubSeq(s, from + 1, Min(to, Len(s)))

\* s.split(',')[1]: the text between the first and the second comma;
\* None (undefined) when s holds no comma.
CommaAt(s) == {i \in 1..Len(s) : s[i] = ","}
\* Faulty variant: split(',')[0], the part before the first comma.
SplitComma0(s) ==
  IF CommaAt(s) = {} THEN Some(s)
  ELSE LET first == CHOOSE i \in CommaAt(s) : \A j \in CommaAt(s) : i <= j
       IN Some(SubSeq(s, 1, first - 1))
SplitComma1(s) ==
  IF CommaAt(s) = {} THEN None
  ELSE LET first == CHOOSE i \in CommaAt(s) : \A j \in CommaAt(s) : i <= j
           later == {i \in CommaAt(s) : i > first}
           stop  == IF later = {} THEN Len(s) + 1
                    ELSE CHOOSE i \in later : \A j \in later : i <= j
       IN Some(SubSeq(s, first + 1, stop - 1))

\* ------------------------------------------------------------ types.ts
\* enum AppStatus
AppStatus == {"IDLE", "PROCESSING", "SUCCESS", "ERROR"}

\* ------------------------------------------------- the File collaborator
\* Files the picker or a drop can hand over: a declared type and bytes.
Files ==
  { [name |-> "a.png", type |-> <<"image/png">>,  bytes |-> <<65>>],
    [name |-> "b.jpg", type |-> <<"image/jpeg">>, bytes |-> <<66, 67, 68, 69>>] }

\* Texts the user can type into the textarea: white space only, and text with
\* white space around it (the textarea is empty at the start and after reset).
Prompts == {<<" ", "\n">>, <<" ", "a", " ">>}

\* ---------------------------------------------- FileReader.readAsDataURL
B64Alphabet ==
  << "A","B","C","D","E","F","G","H","I","J","K","L","M","N","O","P",
     "Q","R","S","T","U","V","W","X","Y","Z","a","b","c","d","e","f",
     "g","h","i","j","k","l","m","n","o","p","q","r","s","t","u","v",
     "w","x","y","z","0","1","2","3","4","5","6","7","8","9","+","/" >>
B64(n) == B64Alphabet[n + 1]

RECURSIVE Base64(_)
Base64(bytes) ==
  IF Len(bytes) = 0 THEN <<>>
  ELSE IF Len(bytes) = 1 THEN
    LET n == bytes[1] * 65536
    IN << B64(n \div 262144), B64((n \div 4096) % 64), "=", "=" >>
  ELSE IF Len(bytes) = 2 THEN
    LET n == bytes[1] * 65536 + bytes[2] * 256
    IN << B64(n \div 262144), B64((n \div 4096) % 64), B64((n \div 64) % 64), "=" >>
  ELSE
    LET n == bytes[1] * 65536 + bytes[2] * 256 + bytes[3]
    IN << B64(n \div 262144), B64((n \div 4096) % 64), B64((n \div 64) % 64), B64(n % 64) >>
       \o Base64(SubSeq(bytes, 4, Len(bytes)))

\* reader.result after a successful read: "data:<type>;base64,<payload>".
readAsDataURL(file) == <<"data:">> \o file.type \o <<";base64", ",">> \o Base64(file.bytes)

\* How a read can end: "load" (a string result), "nonstring" (loadend with a
\* result that is no string), "error" (onerror fires with a ProgressEvent).
ReadOutcomes == {"load", "nonstring", "error"}

\* --------------------------------------------------- errors and outcomes
\* A thrown value, seen through its .message (None: it has none).
NewError(msg) == [message |-> Some(msg)]
ProgressEvent == [message |-> None]
NoError == [message |-> None]

\* How an async function ends: it returns a value or throws.
Return(v) == [kind |-> "return", value |-> v, error |-> NoError]
Throw(e) == [kind |-> "throw", value |-> <<>>, error |-> e]

\* error.message || fallback
MessageOr(e, fallback) ==
  IF TruthyOpt(e.message) THEN Get(e.message) ELSE fallback

\* fileToPart: the promise resolves with the part or rejects.
fileToPart(file, how) ==
  IF how = "error" THEN Throw(ProgressEvent)
  ELSE IF how = "nonstring" THEN Throw(NewError(<<"Failed to read file">>))
  ELSE Return([inlineData |-> [data |-> SplitComma1(readAsDataURL(file)),
                               mimeType |-> file.type]])

\* ------------------------------------------- the remote service's replies
\* Characters of a model text kept by textPart.slice(0, 100).
SliceLen == 100

Digits == <<"0", "1", "2", "3", "4", "5", "6", "7", "8", "9">>
\* A text of n code units whose positions can be told apart.
TextOfLen(n) == [i \in 1..n |-> Digits[(i % 10) + 1]]
Texts == {TextOfLen(n) : n \in {1, SliceLen, SliceLen + MaxOverrun}}

\* A content part: { inlineData?: { data?, mimeType? }, text? }.  An absent or
\* empty data is the empty string (both are falsy and never read otherwise).
Part(inl, txt) == [inlineData |-> inl, text |-> txt]
Blob(data, mime) == [data |-> data, mimeType |-> mime]
PartKinds ==
  { Part(Some(Blob(<<"QQ==">>, Some(<<"image/jpeg">>))), None),
    Part(Some(Blob(<<"Qg==">>, None)), None),
    Part(Some(Blob(<<"Qw==">>, Some(<<>>))), None),
    Part(Some(Blob(<<>>, Some(<<"image/png">>))), None),
    Part(Some(Blob(<<"RA==">>, Some(<<"image/webp">>))), Some(TextOfLen(1))),
    Part(None, Some(<<>>)),
    Part(None, None) }
  \cup {Part(None, Some(t)) : t \in Texts}

PartLists == UNION {[1..n -> PartKinds] : n \in 0..MaxParts}

\* A candidate: { content?: { parts?: Part[] } }.
Candidate(content) == [content |-> content]
Content(parts) == [parts |-> parts]
FirstCandidates ==
  {Candidate(None), Candidate(Some(Content(None)))}
  \cup {Candidate(Some(Content(Some(ps)))) : ps \in PartLists}
\* Candidates after the first: one with an image, one with a text.
LaterCandidates ==
  { Candidate(Some(Content(Some(<<Part(Some(Blob(<<"Wg==">>, Some(<<"image/png">>))), None)>>)))),
    Candidate(Some(Content(Some(<<Part(None, Some(TextOfLen(1)))>>)))) }

\* A response: { candidates?: Candidate[] }.
Response(cands) == [candidates |-> cands]
Responses ==
  {Response(None), Response(Some(<<>>))}
  \cup {Response(Some(<<c>>)) : c \in FirstCandidates}
  \cup {Response(Some(<<c, d>>)) : c \in FirstCandidates, d \in LaterCandidates}

\* Faults ai.models.generateContent can reject with: an Error with a message,
\* an Error whose message is empty, a thrown object without a message.
TransportFaults ==
  {NewError(<<"fetch failed">>), NewError(<<>>), [message |-> None]}

\* How the awaited call ends: it resolves with a response or rejects.
Resolve(r) == [ok |-> TRUE, response |-> r, error |-> NoError]
Reject(e) == [ok |-> FALSE, response |-> Response(None), error |-> e]
ServiceReplies == {Resolve(r) : r \in Responses} \cup {Reject(e) : e \in TransportFaults}

\* One reply of each kind the session can tell apart: a response with an
\* image (Success) and a transport fault (Error).
TypicalReplies ==
  { Resolve(Response(Some(<<Candidate(Some(Content(Some(
      <<Part(Some(Blob(<<"QQ==">>, Some(<<"image/jpeg">>))), None)>>))))>>))),
    Reject(NewError(<<"fetch failed">>)) }

\* ------------------------------------------------- editImageWithGemini
\* part.inlineData && part.inlineData.data
IsImagePart(p) == IsSome(p.inlineData) /\ Truthy(Get(p.inlineData).data)
\* p.text (as a condition)
IsTextPart(p) == TruthyOpt(p.text)

\* The first of the positions hits that a scan from the front reaches (0: none).
FirstHit(hits) == IF hits = {} THEN 0 ELSE CHOOSE i \in hits : \A j \in hits : i <= j
\* Faulty variant: the last of the positions.
LastHit(hits) == IF hits = {} THEN 0 ELSE CHOOSE i \in hits : \A j \in hits : i >= j

\* `data:${part.inlineData.mimeType || 'image/png'};base64,${part.inlineData.data}`
DataUrl(blob) ==
  <<"data:">>
  \o (IF TruthyOpt(blob.mimeType) THEN Get(blob.mimeType) ELSE <<"image/png">>)
  \o <<";base64", ",">> \o blob.data

\* `The model returned text instead of an image: "${textPart.slice(0, 100)}..."`
\* Faulty variant of the message below: the text is not cut.
RefusalMessageWhole(text) ==
  <<"The model returned text instead of an image: \"">> \o text \o <<"...\"">>
RefusalMessage(text) ==
  <<"The model returned text instead of an image: \"">>
  \o Slice(text, 0, SliceLen) \o <<"...\"">>

\* The TypeError of reading .parts of an undefined content.
TypeErrorParts == NewError(<<"Cannot read properties of undefined (reading 'parts')">>)

\* The parts the for loop runs over: those of the first candidate.
FirstCandidateParts(r) ==
  IF IsSome(r.candidates) /\ Len(Get(r.candidates)) > 0
     /\ IsSome(Get(r.candidates)[1].content)
     /\ IsSome(Get(Get(r.candidates)[1].content).parts)
  THEN Get(Get(Get(r.candidates)[1].content).parts)
  ELSE <<>>

\* The first candidate has no content: candidates[0].content.parts throws.
ContentMissing(r) ==
  IsSome(r.candidates) /\ Len(Get(r.candidates)) > 0
  /\ ~IsSome(Get(r.candidates)[1].content)

\* The image returned by the loop over the parts: the first image part.
\* Faulty variant: a loop that keeps the last image part.
PickImageLast(ps) == LastHit({i \in 1..Len(ps) : IsImagePart(ps[i])})
PickImage(ps) == FirstHit({i \in 1..Len(ps) : IsImagePart(ps[i])})

\* response.candidates?.[0]?.content?.parts?.find(p => p.text)
PickText(ps) == FirstHit({i \in 1..Len(ps) : IsTextPart(ps[i])})

\* The statements after the awaited call: what they return or throw.
ParseResponse(r) ==
  IF ContentMissing(r) THEN Throw(TypeErrorParts)
  ELSE LET ps == FirstCandidateParts(r)
       IN IF PickImage(ps) > 0
            THEN Return(DataUrl(Get(ps[PickImage(ps)].inlineData)))
          ELSE IF PickText(ps) > 0
            THEN Throw(NewError(RefusalMessage(Get(ps[PickText(ps)].text))))
          ELSE Throw(NewError(<<"No image data received from Gemini.">>))

\* The try block from the awaited call on.
AfterCall(reply) == IF reply.ok THEN ParseResponse(reply.response) ELSE Throw(reply.error)

\* catch (error) { throw new Error(error.message || "Failed to generate image.") }
\* Faulty variant: the catch drops the fault's message.
CatchGeneric(body) ==
  IF body.kind = "throw" THEN Throw(NewError(<<"Failed to generate image.">>)) ELSE body
Catch(body) ==
  IF body.kind = "throw"
  THEN Throw(NewError(MessageOr(body.error, <<"Failed to generate image.">>)))
  ELSE body

\* ------------------------------------------------------------- App.tsx
VARIABLES
  inputImage,   \* useState<ImageState>: [file, previewUrl]
  resultImage,  \* useState<string | null>
  prompt,       \* useState<string>
  status,       \* useState<AppStatus>
  errorMsg,     \* useState<string | null>
  attempts,     \* the handleGenerate calls that passed the guard, in order
  liveUrls,     \* object URLs created and not revoked
  nextUrl,      \* the next object URL createObjectURL hands out
  lastEvent,    \* the event handled last (a history of one step)
  reply         \* ReplySpec only: the service reply under inspection

vars == <<inputImage, resultImage, prompt, status, errorMsg, attempts,
          liveUrls, nextUrl, lastEvent, reply>>
session == <<inputImage, resultImage, prompt, status, errorMsg>>

\* An event: the operation, the attempt it belongs to (0: none), whether a
\* submit passed its guards, the value the catch block of editImageWithGemini
\* received (None: nothing was thrown), and the phase the event found.
Event(op, id, accepted, fault) ==
  [op |-> op, id |-> id, accepted |-> accepted, fault |-> fault, from |-> status]

\* The model identifier of the request.
ModelId == "gemini-2.5-flash-image"

\* The argument of ai.models.generateContent.
Request(imagePart, text) ==
  [model |-> ModelId, parts |-> <<imagePart, [text |-> text]>>]

\* An attempt: the arguments handleGenerate passed, how far the call got,
\* the outbound calls it made and the request it sent.
Attempt(file, text) ==
  [file |-> Some(file), prompt |-> Some(text), stage |-> "reading", calls |-> 0,
   request |-> None]

\* An attempt that has ended: its arguments and its request are gone with the
\* call, the count of its outbound calls is kept.
Ended(attempt) ==
  [file |-> None, prompt |-> None, stage |-> "done", calls |-> attempt.calls,
   request |-> None]

InFlight == {id \in 1..Len(attempts) : attempts[id].stage # "done"}

Init ==
  /\ inputImage = [file |-> None, previewUrl |-> None]
  /\ resultImage = None
  /\ prompt = <<>>
  /\ status = "IDLE"
  /\ errorMsg = None
  /\ attempts = <<>>
  /\ liveUrls = {}
  /\ nextUrl = 1
  /\ lastEvent = [op |-> "init", id |-> 0, accepted |-> FALSE, fault |-> None,
                  from |-> "IDLE"]
  /\ reply = None

\* handleImageSelect, called by ImageUploader with the chosen file.
\* Faulty variant: setStatus(AppStatus.IDLE) is missing.
handleImageSelectKeepsStatus(file) ==
  /\ liveUrls' = (IF TruthyOpt(inputImage.previewUrl)
                  THEN liveUrls \ {Get(inputImage.previewUrl)} ELSE liveUrls)
                 \cup {<<nextUrl>>}
  /\ nextUrl' = nextUrl + 1
  /\ inputImage' = [file |-> Some(file), previewUrl |-> Some(<<nextUrl>>)]
  /\ resultImage' = None
  /\ errorMsg' = None
  /\ UNCHANGED <<prompt, status, attempts, reply>>
\* Faulty variant: the old object URL is not revoked.
handleImageSelectLeaks(file) ==
  /\ liveUrls' = liveUrls \cup {<<nextUrl>>}
  /\ nextUrl' = nextUrl + 1
  /\ inputImage' = [file |-> Some(file), previewUrl |-> Some(<<nextUrl>>)]
  /\ resultImage' = None
  /\ status' = "IDLE"
  /\ errorMsg' = None
  /\ UNCHANGED <<prompt, attempts, reply>>
handleImageSelect(file) ==
  /\ liveUrls' = (IF TruthyOpt(inputImage.previewUrl)
                  THEN liveUrls \ {Get(inputImage.previewUrl)} ELSE liveUrls)
                 \cup {<<nextUrl>>}
  /\ nextUrl' = nextUrl + 1
  /\ inputImage' = [file |-> Some(file), previewUrl |-> Some(<<nextUrl>>)]
  /\ resultImage' = None
  /\ status' = "IDLE"
  /\ errorMsg' = None
  /\ UNCHANGED <<prompt, attempts, reply>>

\* The user picks or drops a file.
SelectImage(file) ==
  /\ nextUrl <= MaxSelects
  /\ handleImageSelect(file)
  /\ lastEvent' = Event("selectImage", 0, TRUE, None)

\* The textarea's onChange: setPrompt(e.target.value).
\* Faulty variant: the text is trimmed before it is stored.
SetInstructionTrims(text) ==
  /\ prompt' = Trim(text)
  /\ lastEvent' = Event("setInstruction", 0, TRUE, None)
  /\ UNCHANGED <<inputImage, resultImage, status, errorMsg, attempts,
                 liveUrls, nextUrl, reply>>
SetInstruction(text) ==
  /\ prompt' = text
  /\ lastEvent' = Event("setInstruction", 0, TRUE, None)
  /\ UNCHANGED <<inputImage, resultImage, status, errorMsg, attempts,
                 liveUrls, nextUrl, reply>>

\* The Generate button's props.
disabled == ~IsSome(inputImage.file) \/ ~Truthy(Trim(prompt))
\* Faulty variant: the loading state is never shown.
isLoadingNever == FALSE
isLoading == status = "PROCESSING"

\* components/Button: a click reaches onClick unless the button is disabled
\* or shows its loading state.
ButtonClickable(isDisabled, loading) == ~isDisabled /\ ~loading

\* handleGenerate up to the awaited call; FALSE when it returns at its guard.
handleGeneratePasses == IsSome(inputImage.file) /\ Truthy(Trim(prompt))
\* Faulty variant: setResultImage(null) is missing.
handleGenerateStartKeepsResult ==
  /\ status' = "PROCESSING"
  /\ errorMsg' = None
  /\ attempts' = Append(attempts, Attempt(Get(inputImage.file), prompt))
  /\ UNCHANGED <<inputImage, resultImage, prompt, liveUrls, nextUrl, reply>>
\* Faulty variant: setErrorMsg(null) is missing.
handleGenerateStartKeepsError ==
  /\ status' = "PROCESSING"
  /\ resultImage' = None
  /\ attempts' = Append(attempts, Attempt(Get(inputImage.file), prompt))
  /\ UNCHANGED <<inputImage, errorMsg, prompt, liveUrls, nextUrl, reply>>
handleGenerateStart ==
  /\ status' = "PROCESSING"
  /\ errorMsg' = None
  /\ resultImage' = None
  /\ attempts' = Append(attempts, Attempt(Get(inputImage.file), prompt))
  /\ UNCHANGED <<inputImage, prompt, liveUrls, nextUrl, reply>>

\* The user clicks Generate Edit.
ClickGenerate ==
  IF ButtonClickable(disabled, isLoading) /\ handleGeneratePasses
  THEN /\ Len(attempts) < MaxAttempts
       /\ handleGenerateStart
       /\ lastEvent' = Event("submit", Len(attempts) + 1, TRUE, None)
  ELSE /\ lastEvent' = Event("submit", 0, FALSE, None)
       /\ UNCHANGED <<session, attempts, liveUrls, nextUrl, reply>>

\* handleReset
\* Faulty variant: reset also revokes the preview and drops the input image.
handleResetRevokes ==
  /\ prompt' = <<>>
  /\ resultImage' = None
  /\ status' = "IDLE"
  /\ liveUrls' = (IF TruthyOpt(inputImage.previewUrl)
                  THEN liveUrls \ {Get(inputImage.previewUrl)} ELSE liveUrls)
  /\ inputImage' = [file |-> None, previewUrl |-> None]
  /\ UNCHANGED <<errorMsg, attempts, nextUrl, reply>>
handleReset ==
  /\ prompt' = <<>>
  /\ resultImage' = None
  /\ status' = "IDLE"
  /\ UNCHANGED <<inputImage, errorMsg, attempts, liveUrls, nextUrl, reply>>

\* The Clear button is rendered only while resultImage is truthy.
clearShown == TruthyOpt(resultImage)

\* The user clicks Clear.
ClickClear ==
  /\ clearShown
  /\ handleReset
  /\ lastEvent' = Event("reset", 0, TRUE, None)

\* handleGenerate after the awaited call, given how the try block ended.
\* Faulty variant: setStatus(AppStatus.ERROR) is missing.
SettleKeepsStatus(out) ==
  IF out.kind = "return"
  THEN /\ resultImage' = Some(out.value)
       /\ status' = "SUCCESS"
       /\ UNCHANGED errorMsg
  ELSE /\ errorMsg' = Some(MessageOr(out.error, <<"An unexpected error occurred.">>))
       /\ UNCHANGED <<status, resultImage>>
Settle(out) ==
  IF out.kind = "return"
  THEN /\ resultImage' = Some(out.value)
       /\ status' = "SUCCESS"
       /\ UNCHANGED errorMsg
  ELSE /\ status' = "ERROR"
       /\ errorMsg' = Some(MessageOr(out.error, <<"An unexpected error occurred.">>))
       /\ UNCHANGED resultImage

\* The try block of editImageWithGemini ended as `body`: its catch converts a
\* throw, its caller's continuation stores the outcome.
Deliver(id, body) ==
  /\ Settle(Catch(body))
  /\ attempts' = [attempts EXCEPT ![id] = Ended(@)]
  /\ lastEvent' = Event("outcome", id, body.kind = "return",
                        IF body.kind = "throw" THEN Some(body.error) ELSE None)
  /\ UNCHANGED <<inputImage, prompt, liveUrls, nextUrl, reply>>

\* The FileReader of attempt id finishes: the request goes out, or the read
\* failure ends the attempt.
\* Faulty variant: the request takes the instruction from the session as it
\* is when the read ends.
ReadDoneReadsSession(id, how) ==
  /\ id \in 1..Len(attempts)
  /\ attempts[id].stage = "reading"
  /\ LET part == fileToPart(Get(attempts[id].file), how)
     IN IF part.kind = "return"
        THEN /\ attempts' = [attempts EXCEPT
                  ![id].stage = "calling",
                  ![id].calls = @ + 1,
                  ![id].request = Some(Request(part.value, prompt))]
             /\ lastEvent' = Event("read", id, TRUE, None)
             /\ UNCHANGED <<session, liveUrls, nextUrl, reply>>
        ELSE Deliver(id, part)
\* Faulty variant: the request is sent a second time.
ReadDoneRetries(id, how) ==
  /\ id \in 1..Len(attempts)
  /\ attempts[id].stage = "reading"
  /\ LET part == fileToPart(Get(attempts[id].file), how)
     IN IF part.kind = "return"
        THEN /\ attempts' = [attempts EXCEPT
                  ![id].stage = "calling",
                  ![id].calls = @ + 2,
                  ![id].request = Some(Request(part.value, Get(attempts[id].prompt)))]
             /\ lastEvent' = Event("read", id, TRUE, None)
             /\ UNCHANGED <<session, liveUrls, nextUrl, reply>>
        ELSE Deliver(id, part)
ReadDone(id, how) ==
  /\ id \in 1..Len(attempts)
  /\ attempts[id].stage = "reading"
  /\ LET part == fileToPart(Get(attempts[id].file), how)
     IN IF part.kind = "return"
        THEN /\ attempts' = [attempts EXCEPT
                  ![id].stage = "calling",
                  ![id].calls = @ + 1,
                  ![id].request = Some(Request(part.value, Get(attempts[id].prompt)))]
             /\ lastEvent' = Event("read", id, TRUE, None)
             /\ UNCHANGED <<session, liveUrls, nextUrl, reply>>
        ELSE Deliver(id, part)

\* What the try block can end as once the call was made.
ServiceBodies == {AfterCall(r) : r \in TypicalReplies}

\* The remote call of attempt id ends.
Respond(id) ==
  /\ id \in 1..Len(attempts)
  /\ attempts[id].stage = "calling"
  /\ \E body \in ServiceBodies : Deliver(id, body)

Next ==
  \/ \E file \in Files : SelectImage(file)
  \/ \E text \in Prompts : SetInstruction(text)
  \/ ClickGenerate
  \/ ClickClear
  \/ \E id \in 1..MaxAttempts, how \in ReadOutcomes : ReadDone(id, how)
  \/ \E id \in 1..MaxAttempts : Respond(id)

Spec == Init /\ [][Next]_vars

\* ------------------------------------------------ one attempt, any reply
\* The session after selectImage, setInstruction and an accepted submit, with
\* the reply the service will give to the attempt drawn from ServiceReplies.
ReplyInit ==
  /\ \E file \in Files :
       /\ inputImage = [file |-> Some(file), previewUrl |-> Some(<<1>>)]
       /\ attempts = <<Attempt(file, <<" ", "a", " ">>)>>
  /\ resultImage = None
  /\ prompt = <<" ", "a", " ">>
  /\ status = "PROCESSING"
  /\ errorMsg = None
  /\ liveUrls = {<<1>>}
  /\ nextUrl = 2
  /\ lastEvent = [op |-> "submit", id |-> 1, accepted |-> TRUE, fault |-> None,
                  from |-> "IDLE"]
  /\ \E r \in ServiceReplies : reply = Some(r)

\* The remote call of the attempt ends with the reply drawn.
RespondWith ==
  /\ attempts[1].stage = "calling"
  /\ Deliver(1, AfterCall(Get(reply)))

ReplyNext ==
  \/ \E how \in ReadOutcomes : ReadDone(1, how)
  \/ RespondWith

ReplySpec == ReplyInit /\ [][ReplyNext]_vars

\* A pending read or remote call ends.
AttemptStep ==
  \/ \E id \in 1..MaxAttempts, how \in ReadOutcomes : ReadDone(id, how)
  \/ \E id \in 1..MaxAttempts : Respond(id)

\* The FileReader and the remote call of an attempt eventually end: a pending
\* attempt does not wait forever.
FairSpec == Spec /\ WF_vars(AttemptStep)

\* ------------------------------------------------ one attempt, any file
\* Byte values of a file: the least, one in between, the greatest.
ByteValues == {0, 65, 255}
ByteSeqs == UNION {[1..n -> ByteValues] : n \in 0..MaxBytes}
\* Declared types of a file ("" when the browser knows none).
MediaTypes == {<<"image/png">>, <<"image/jpeg">>, <<>>}
EncodeFiles ==
  {[name |-> "f", type |-> t, bytes |-> b] : t \in MediaTypes, b \in ByteSeqs}

\* The session after selectImage, setInstruction and an accepted submit, with
\* the selected file drawn from EncodeFiles.
EncodeInit ==
  /\ \E file \in EncodeFiles :
       /\ inputImage = [file |-> Some(file), previewUrl |-> Some(<<1>>)]
       /\ attempts = <<Attempt(file, <<" ", "a", " ">>)>>
  /\ resultImage = None
  /\ prompt = <<" ", "a", " ">>
  /\ status = "PROCESSING"
  /\ errorMsg = None
  /\ liveUrls = {<<1>>}
  /\ nextUrl = 2
  /\ lastEvent = [op |-> "submit", id |-> 1, accepted |-> TRUE, fault |-> None,
                  from |-> "IDLE"]
  /\ reply = None

\* The FileReader of the attempt finishes.
EncodeNext == \E how \in ReadOutcomes : ReadDone(1, how)

EncodeSpec == EncodeInit /\ [][EncodeNext]_vars

\* ================================================================ claims
\* All of a text is white space (or the text is empty).
IsBlank(text) == \A i \in 1..Len(text) : text[i] \in WhiteSpace

\* The session rests in Success with a result or in Error with a message.
Rested ==
  \/ status = "SUCCESS" /\ IsSome(resultImage) /\ Len(Get(resultImage)) > 0
  \/ status = "ERROR" /\ IsSome(errorMsg) /\ Len(Get(errorMsg)) > 0

\* C1: every accepted submit's attempt eventually completes, and when its
\* outcome arrives the session is in Success with a non-empty resultImage or
\* in Error with a non-empty errorMessage, never in Idle or Processing.
C1_SubmitEnds ==
  /\ [](lastEvent.op = "outcome" => Rested /\ status \notin {"IDLE", "PROCESSING"})
  /\ \A id \in 1..MaxAttempts : (id \in InFlight) ~> (id \notin InFlight)

\* C1 witness: every attempt has ended and the last outcome was a failure.
C1_Witness ==
  /\ lastEvent.op = "outcome" /\ ~lastEvent.accepted
  /\ status = "ERROR" /\ InFlight = {}
  /\ Len(attempts) = MaxAttempts

C3_LateOutcomeDropped ==
  [][(/\ lastEvent'.op = "outcome"
      /\ (status # "PROCESSING" \/ lastEvent'.id # Len(attempts)))
       => UNCHANGED <<status, resultImage, errorMsg>>]_vars

\* C4: at most one generation attempt is in flight.
C4_OneInFlight == Cardinality(InFlight) <= 1

\* C5: a submit with no input image or with an empty or white-space-only
\* instruction changes nothing and starts no attempt.
C5_SubmitNoOpWithoutInputs ==
  [][(lastEvent'.op = "submit" /\ (~IsSome(inputImage.file) \/ IsBlank(prompt)))
       => /\ ~lastEvent'.accepted
          /\ UNCHANGED <<session, attempts, liveUrls, nextUrl>>]_vars

\* C5 witness: submit was pressed with an image and a white-space-only text.
C5_Witness ==
  /\ lastEvent.op = "submit" /\ ~lastEvent.accepted
  /\ IsSome(inputImage.file) /\ Len(prompt) > 0 /\ IsBlank(prompt)
  /\ status = "IDLE"

\* C6: selectImage is enabled in every phase and leaves the new file as
\* inputImage, resultImage and errorMessage empty, the phase Idle and the
\* instruction unchanged.
C6_SelectImageResets ==
  /\ [](nextUrl <= MaxSelects => \A f \in Files : ENABLED SelectImage(f))
  /\ [][/\ lastEvent'.op = "selectImage"
             => /\ resultImage' = None /\ errorMsg' = None
                /\ status' = "IDLE" /\ prompt' = prompt
                /\ IsSome(inputImage'.file)
          /\ \A f \in Files : SelectImage(f) => inputImage'.file = Some(f)]_vars

\* C6 witness: an image was selected while an attempt was pending in Processing.
C6_Witness ==
  /\ lastEvent.op = "selectImage" /\ lastEvent.from = "PROCESSING"
  /\ status = "IDLE" /\ InFlight # {}

\* What reset does to the session: the input image and its preview handle are
\* untouched and still live, instruction and resultImage are empty, phase Idle.
ResetEffect ==
  lastEvent'.op = "reset"
    => /\ inputImage' = inputImage
       /\ liveUrls' = liveUrls
       /\ IsSome(inputImage.previewUrl) => Get(inputImage.previewUrl) \in liveUrls'
       /\ prompt' = <<>> /\ resultImage' = None /\ status' = "IDLE"

\* C7 as stated: reset is enabled in every phase, keeps inputImage and its
\* preview handle and empties instruction and resultImage, phase Idle.
C7_ResetEnabledEverywhere ==
  /\ [](ENABLED ClickClear)
  /\ [][ResetEffect]_vars

\* C7 as amended: reset is enabled exactly while resultImage is non-empty, which
\* happens only in Success and Error; it keeps inputImage and its preview handle
\* (not released) and empties instruction and resultImage, phase Idle.
C7_ResetKeepsImage ==
  /\ []((ENABLED ClickClear) <=> (IsSome(resultImage) /\ Len(Get(resultImage)) > 0))
  /\ []((ENABLED ClickClear) => status \in {"SUCCESS", "ERROR"})
  /\ [][ResetEffect]_vars

\* C7 witness: reset ran in Error (a stale result was on screen) and the
\* input image and its live preview handle are still there.
C7_Witness ==
  /\ lastEvent.op = "reset" /\ lastEvent.from = "ERROR"
  /\ IsSome(inputImage.file) /\ Get(inputImage.previewUrl) \in liveUrls
  /\ status = "IDLE" /\ prompt = <<>> /\ resultImage = None

\* ------------------------------------------------ claims under ReplySpec
\* The attempt ended with the reply drawn for it (the call was made).
Replied ==
  /\ lastEvent.op = "outcome" /\ attempts[1].calls = 1
  /\ attempts[1].stage = "done"

\* The parts of the reply's first candidate (none when anything is missing).
ReplyParts ==
  LET r == Get(reply).response
  IN IF ~Get(reply).ok \/ r.candidates = None THEN <<>>
     ELSE LET cs == Get(r.candidates)
          IN IF Len(cs) = 0 THEN <<>>
             ELSE IF cs[1].content = None THEN <<>>
             ELSE IF Get(cs[1].content).parts = None THEN <<>>
             ELSE Get(Get(cs[1].content).parts)

CarriesImage(p) == p.inlineData # None /\ Len(Get(p.inlineData).data) > 0
CarriesText(p) == p.text # None /\ Len(Get(p.text)) > 0
ImageAt == {i \in 1..Len(ReplyParts) : CarriesImage(ReplyParts[i])}
TextAt == {i \in 1..Len(ReplyParts) : CarriesText(ReplyParts[i])}
Least(S) == CHOOSE i \in S : \A j \in S : i <= j

\* C8: the client ends in exactly one outcome, and every fault (transport,
\* malformed response, read failure, or one thrown while parsing) becomes a
\* failure carrying the fault's message, or a non-empty fallback when the fault
\* has none; the session stores that message and is in Error.
C8_FaultsBecomeFailures ==
  lastEvent.op = "outcome" =>
    /\ \/ /\ lastEvent.accepted /\ lastEvent.fault = None
          /\ status = "SUCCESS" /\ IsSome(resultImage) /\ errorMsg = None
       \/ /\ ~lastEvent.accepted /\ IsSome(lastEvent.fault)
          /\ status = "ERROR" /\ IsSome(errorMsg) /\ resultImage = None
    /\ IsSome(lastEvent.fault) =>
         LET m == Get(lastEvent.fault).message
         IN IF IsSome(m) /\ Len(Get(m)) > 0
            THEN errorMsg = Some(Get(m))
            ELSE IsSome(errorMsg) /\ Len(Get(errorMsg)) > 0

\* C8 witness: the first candidate had no content, and the fault of reading
\* its parts is the error on screen.
C8_Witness ==
  /\ Replied /\ Get(reply).ok
  /\ IsSome(Get(reply).response.candidates)
  /\ Len(Get(Get(reply).response.candidates)) > 0
  /\ Get(Get(reply).response.candidates)[1].content = None
  /\ status = "ERROR"
  /\ errorMsg = Some(<<"Cannot read properties of undefined (reading 'parts')">>)

\* C9: if the first candidate's parts hold a part carrying image data, the
\* outcome is Success with resultImage "data:" + mimeType (image/png when
\* absent) + ";base64," + data of the first such part, whatever text precedes
\* it; otherwise the outcome is no Success, whatever later candidates hold.
C9_FirstImagePartWins ==
  (Replied /\ Get(reply).ok) =>
    IF ImageAt # {}
    THEN LET b == Get(ReplyParts[Least(ImageAt)].inlineData)
             mime == IF b.mimeType = None THEN <<"image/png">>
                     ELSE IF Len(Get(b.mimeType)) = 0 THEN <<"image/png">>
                     ELSE Get(b.mimeType)
         IN /\ status = "SUCCESS"
            /\ resultImage = Some(<<"data:">> \o mime \o <<";base64", ",">> \o b.data)
    ELSE status # "SUCCESS" /\ resultImage = None

\* C9 witness: a text part came first, then two image parts; the first image
\* part is the result.
C9_Witness ==
  /\ Replied /\ Get(reply).ok /\ status = "SUCCESS"
  /\ Len(ReplyParts) = MaxParts
  /\ CarriesText(ReplyParts[1]) /\ ~CarriesImage(ReplyParts[1])
  /\ CarriesImage(ReplyParts[MaxParts])
  /\ Len(Get(Get(reply).response.candidates)) > 1

\* C10: with no image part but a part carrying text in the first candidate,
\* the outcome is a Failure whose message embeds the first 100 characters of
\* the first such text (all of a shorter text) followed by "...".
C10_TextInsteadOfImage ==
  (Replied /\ Get(reply).ok /\ ImageAt = {} /\ TextAt # {}) =>
    LET t == Get(ReplyParts[Least(TextAt)].text)
        kept == SubSeq(t, 1, IF Len(t) < 100 THEN Len(t) ELSE 100)
    IN /\ status = "ERROR" /\ resultImage = None
       /\ errorMsg = Some(<<"The model returned text instead of an image: \"">>
                          \o kept \o <<"...\"">>)

\* C10 witness: a text longer than 100 characters was cut to 100.
C10_Witness ==
  /\ Replied /\ Get(reply).ok /\ ImageAt = {} /\ TextAt # {}
  /\ Len(Get(ReplyParts[Least(TextAt)].text)) > 100
  /\ status = "ERROR" /\ Len(Get(errorMsg)) = 102

\* C11: when the response has no candidates, or its first candidate has no
\* parts, or none of the first candidate's parts carries image data or
\* non-empty text, the outcome is a Failure whose message says that no image
\* data was received.
C11_EmptyResponse ==
  (Replied /\ Get(reply).ok /\ ImageAt = {} /\ TextAt = {}) =>
    /\ status = "ERROR" /\ resultImage = None
    /\ errorMsg = Some(<<"No image data received from Gemini.">>)

\* C12: an accepted submit makes at most one outbound call and is never
\* retried: exactly one call once the file is encoded, whatever the response,
\* and no call when the read fails, which ends the attempt as a Failure
\* (phase Error, a message stored) before any call.
C12_OneCallPerAttempt ==
  /\ [](\A id \in 1..Len(attempts) : attempts[id].calls <= 1)
  /\ [][\A id \in 1..Len(attempts) :
          /\ (lastEvent'.op = "read" /\ lastEvent'.id = id)
               => attempts'[id].calls = 1
          /\ (lastEvent'.op = "outcome" /\ lastEvent'.id = id
              /\ attempts[id].stage = "reading")
               => /\ attempts'[id].calls = 0 /\ status' = "ERROR"
                  /\ IsSome(errorMsg') /\ Len(Get(errorMsg')) > 0
          /\ (lastEvent'.op = "outcome" /\ lastEvent'.id = id
              /\ attempts[id].stage = "calling")
               => attempts'[id].calls = 1]_vars

\* C12 witness: the first attempt made its one call and ended, the second
\* ended on a failed read without a call.
C12_Witness ==
  /\ Len(attempts) = 2 /\ InFlight = {}
  /\ attempts[1].calls = 1 /\ attempts[2].calls = 0
  /\ lastEvent.op = "outcome" /\ lastEvent.id = 2 /\ IsSome(lastEvent.fault)
  /\ status = "ERROR" /\ errorMsg = Some(<<"Failed to read file">>)

\* The session holds what a submit needs: an image and a non-blank instruction.
CanSubmit == IsSome(inputImage.file) /\ ~IsBlank(prompt)

\* C13: from Error and from Success, with an image and a non-blank instruction,
\* submit is enabled and moves the session to Processing with errorMessage and
\* resultImage empty; and no state is a dead end for submitting: a pending
\* attempt can end, an image can be selected when there is none, a non-blank
\* instruction can be set, and with both in place outside Processing a submit
\* is accepted (as long as the attempts of the behaviour are not used up).
C13_FailureRecoverable ==
  /\ [][(lastEvent'.op = "submit" /\ status \in {"ERROR", "SUCCESS"} /\ CanSubmit)
          => /\ lastEvent'.accepted /\ status' = "PROCESSING"
             /\ errorMsg' = None /\ resultImage' = None]_vars
  /\ [](Len(attempts) < MaxAttempts =>
          /\ (status # "PROCESSING" /\ CanSubmit)
               => ENABLED (ClickGenerate /\ lastEvent'.accepted)
          /\ status = "PROCESSING" => ENABLED AttemptStep
          /\ ~IsSome(inputImage.file) => \E f \in Files : ENABLED SelectImage(f)
          /\ \E t \in Prompts : ~IsBlank(t) /\ ENABLED SetInstruction(t))

\* C13 witness: a submit was accepted in Error, after a failed attempt, and
\* cleared the error.
C13_Witness ==
  /\ lastEvent.op = "submit" /\ lastEvent.accepted /\ lastEvent.from = "ERROR"
  /\ status = "PROCESSING" /\ errorMsg = None /\ resultImage = None
  /\ Len(attempts) = 2 /\ InFlight = {2}

\* C14: preview handles do not leak: the only live handle is the one of the
\* current inputImage, so every handle that was replaced has been released; a
\* selection releases the handle it replaces and no other, and the current
\* handle is never a released one.
C14_PreviewHandlesReleased ==
  /\ [](liveUrls = IF IsSome(inputImage.previewUrl)
                   THEN {Get(inputImage.previewUrl)} ELSE {})
  /\ [][/\ lastEvent'.op = "selectImage"
             => /\ IsSome(inputImage.previewUrl)
                     => Get(inputImage.previewUrl) \notin liveUrls'
                /\ IsSome(inputImage'.previewUrl)
                /\ Get(inputImage'.previewUrl) \in liveUrls'
          /\ \A u \in liveUrls \ liveUrls' :
               inputImage.previewUrl = Some(u) /\ inputImage'.previewUrl # Some(u)]_vars

\* C14 witness: every selection of the behaviour was made, the last one while
\* an attempt was pending, and only the last handle is live.
C14_Witness ==
  /\ lastEvent.op = "selectImage" /\ lastEvent.from = "PROCESSING"
  /\ nextUrl = MaxSelects + 1
  /\ liveUrls = {<<MaxSelects>>} /\ inputImage.previewUrl = Some(<<MaxSelects>>)

\* C15: whenever the phase is Processing, resultImage and errorMessage are
\* both empty.
C15_ProcessingIsClean ==
  status = "PROCESSING" => resultImage = None /\ errorMsg = None

\* C15 witness: the outcome of the first attempt arrived late and left an
\* error, then a second submit was accepted and the phase is Processing.
C15_Witness ==
  /\ status = "PROCESSING" /\ lastEvent.op = "submit" /\ lastEvent.from = "ERROR"
  /\ Len(attempts) = 2 /\ attempts[1].stage = "done" /\ attempts[1].calls = 0
  /\ Get(inputImage.previewUrl) = <<2>>

\* ----------------------------------------------- claims under EncodeSpec
IsB64(ch) == \E i \in 1..64 : B64Alphabet[i] = ch
B64Value(ch) == (CHOOSE i \in 1..64 : B64Alphabet[i] = ch) - 1

\* The bytes a base64 text stands for (None: the text is no base64).
RECURSIVE Base64Decode(_)
Base64Decode(s) ==
  IF Len(s) = 0 THEN Some(<<>>)
  ELSE IF Len(s) < 4 \/ ~IsB64(s[1]) \/ ~IsB64(s[2]) THEN None
  ELSE LET n12 == B64Value(s[1]) * 262144 + B64Value(s[2]) * 4096
           rest == SubSeq(s, 5, Len(s))
       IN IF s[3] = "=" /\ s[4] = "="
            THEN IF Len(s) = 4 /\ n12 % 65536 = 0
                 THEN Some(<<n12 \div 65536>>) ELSE None
          ELSE IF ~IsB64(s[3]) THEN None
          ELSE IF s[4] = "="
            THEN LET n == n12 + B64Value(s[3]) * 64
                 IN IF Len(s) = 4 /\ n % 256 = 0
                    THEN Some(<<n \div 65536, (n \div 256) % 256>>) ELSE None
          ELSE IF ~IsB64(s[4]) THEN None
          ELSE LET n == n12 + B64Value(s[3]) * 64 + B64Value(s[4])
                   tail == Base64Decode(rest)
               IN IF tail = None THEN None
                  ELSE Some(<<n \div 65536, (n \div 256) % 256, n % 256>> \o Get(tail))

\* The image part of the request the attempt sent.
SentImagePart == Get(attempts[1].request).parts[1].inlineData

\* C16: for every byte sequence and declared media type, the payload of the
\* part the encoder produced decodes from base64 to the file's bytes, and its
\* mimeType is the file's declared type, unchanged.
C16_EncoderRoundTrip ==
  lastEvent.op = "read" =>
    /\ IsSome(SentImagePart.data)
    /\ Base64Decode(Get(SentImagePart.data)) = Some(Get(inputImage.file).bytes)
    /\ SentImagePart.mimeType = Get(inputImage.file).type

\* C16 witness: a file of the greatest length, declared a JPEG whatever its
\* bytes are, was encoded.
C16_Witness ==
  /\ lastEvent.op = "read" /\ attempts[1].calls = 1
  /\ Len(Get(inputImage.file).bytes) = MaxBytes
  /\ Get(inputImage.file).bytes[1] = 255
  /\ Get(inputImage.file).type = <<"image/jpeg">>
  /\ Len(Get(SentImagePart.data)) = 4 * ((MaxBytes + 2) \div 3)

\* C17: setInstruction is enabled in every phase, sets the instruction to
\* exactly the given text, leaves phase, inputImage, resultImage and
\* errorMessage unchanged and starts no generation attempt.
C17_SetInstructionVerbatim ==
  /\ [](\A t \in Prompts : ENABLED SetInstruction(t))
  /\ [][/\ lastEvent'.op = "setInstruction"
             => UNCHANGED <<status, inputImage, resultImage, errorMsg,
                            attempts, liveUrls, nextUrl>>
          /\ \A t \in Prompts : SetInstruction(t) => prompt' = t]_vars

\* C17 witness: a text with white space around it was typed while an attempt
\* was pending, and is the instruction as typed.
C17_Witness ==
  /\ lastEvent.op = "setInstruction" /\ lastEvent.from = "PROCESSING"
  /\ status = "PROCESSING" /\ InFlight # {}
  /\ prompt = <<" ", "a", " ">> /\ Trim(prompt) # prompt

\* C18: the outcome fields agree with the phase: resultImage is non-empty only
\* when the phase is Success, errorMessage is non-empty only when it is Error.
C18_OutcomeFieldsAgree ==
  /\ (IsSome(resultImage) /\ Len(Get(resultImage)) > 0) => status = "SUCCESS"
  /\ (IsSome(errorMsg) /\ Len(Get(errorMsg)) > 0) => status = "ERROR"

\* C19: resultImage and errorMessage are never both non-empty.
C19_NotBothOutcomes ==
  ~(/\ IsSome(resultImage) /\ Len(Get(resultImage)) > 0
    /\ IsSome(errorMsg) /\ Len(Get(errorMsg)) > 0)

\* C20: an attempt uses the session as it was when its submit was accepted: it
\* takes the input image and the instruction of that moment, nothing done to
\* the session while it is in flight changes them, and the request it sends
\* is, under the fixed model identifier, the image part of that image (its
\* bytes in base64, its declared type) followed by that instruction, untrimmed.
C20_AttemptUsesSubmitTimeSession ==
  [][\A id \in 1..Len(attempts') :
       /\ (lastEvent'.op = "submit" /\ lastEvent'.accepted /\ lastEvent'.id = id)
            => /\ attempts'[id].file = inputImage.file
               /\ attempts'[id].prompt = Some(prompt)
               /\ attempts'[id].request = None
       /\ (id <= Len(attempts) /\ attempts'[id].stage = "reading")
            => /\ attempts'[id].file = attempts[id].file
               /\ attempts'[id].prompt = attempts[id].prompt
       /\ (lastEvent'.op = "read" /\ lastEvent'.id = id)
            => LET sent == Get(attempts'[id].request)
                   f == Get(attempts[id].file)
               IN /\ sent.model = "gemini-2.5-flash-image"
                  /\ Len(sent.parts) = 2
                  /\ IsSome(sent.parts[1].inlineData.data)
                  /\ Base64Decode(Get(sent.parts[1].inlineData.data)) = Some(f.bytes)
                  /\ sent.parts[1].inlineData.mimeType = f.type
                  /\ sent.parts[2] = [text |-> Get(attempts[id].prompt)]
       /\ (id <= Len(attempts) /\ attempts[id].stage = "calling"
           /\ attempts'[id].stage = "calling")
            => attempts'[id].request = attempts[id].request]_vars

\* C20 witness: while the attempt was reading, another image was selected and
\* the instruction was retyped; the request holds the image and the text of
\* the submit.
C20_Witness ==
  /\ lastEvent.op = "read"
  /\ LET sent == Get(attempts[lastEvent.id].request)
     IN /\ sent.parts[2].text = <<" ", "a", " ">>
        /\ prompt # sent.parts[2].text
        /\ sent.parts[1].inlineData.mimeType # Get(inputImage.file).type
  /\ status = "IDLE"

====
